---- MODULE Spec2Model ----
(***************************************************************************)
(* State-machine model of the two Anchor programs of the repository:       *)
(*   privacy_bridge.rs     lock / relay / unlock bridge                    *)
(*   confidential_swap.rs  commit-reveal AMM pool                          *)
(*                                                                         *)
(* Every instruction handler is a pure operator from the accounts it is    *)
(* handed to a result record: the error code ("Ok" on success) and the     *)
(* accounts as the host commits them.  An instruction that returns Err (or *)
(* panics) commits nothing: the operators return the accounts they were    *)
(* given on every failing path.  Accounts created by an `init` constraint  *)
(* are returned in `created`, a sequence that is empty when the            *)
(* instruction fails.                                                      *)
(*                                                                         *)
(* Widths: u64 is modelled U64Bits wide (TLC's integers are 32-bit), u8    *)
(* and u16 keep their width.  Fields no claim reads (ids, hashes, chain    *)
(* ids, timestamps of the bridge records, token mints) are left out.       *)
(***************************************************************************)
EXTENDS Integers, Sequences, FiniteSets, TLC

VARIABLES
    bridge,      \* the Bridge singleton (seeds = [b"bridge"])
    txs,         \* the BridgeTransaction accounts, in creation order
    nullifiers,  \* the NullifierAccount accounts, in creation order
    relayers,    \* the Relayer accounts, in creation order
    config,      \* the SwapConfig singleton (seeds = [b"config"])
    pools,       \* the Pool accounts, in creation order
    positions,   \* the LiquidityPosition accounts, in creation order
    swaps,       \* the SwapCommitment accounts, in creation order
    now,         \* Clock::get()?.unix_timestamp
    last         \* the last instruction processed and its result

bridgeVars == <<bridge, txs, nullifiers, relayers>>
swapVars == <<config, pools, positions, swaps, now>>
vars == <<bridge, txs, nullifiers, relayers, config, pools, positions, swaps, now, last>>

----------------------------------------------------------------------------
(* Bounds of the model *)

MaxTx == 2              \* BridgeTransaction accounts created
MaxRelayers == 1        \* Relayer accounts created
MaxPools == 2           \* Pool accounts created
MaxPositions == 1       \* LiquidityPosition accounts created
CommitmentLen == 2      \* modelled length of a [u8; 32] commitment
U64Bits == 14           \* modelled width of a u64
F64Mantissa == 11       \* modelled width of an f64 significand (53 of 64 bits)

(* Program constants *)

U8_MAX == 255
U16_MAX == 65535
FEE_CAP == 1000
BPS_DENOMINATOR == 10000

MINIMUM_LIQUIDITY == 1000
REVEAL_DELAY == 60
REVEAL_WINDOW == 600

U64_MAX == 2^U64Bits - 1

Keys == {"k1", "k2"}                 \* signers
Deployers == {"k1"}                  \* who signs initialize
NoKey == "none"                      \* Pubkey::default()
ZERO_NULLIFIER == 0                  \* [0; 32]
Nullifiers == {1, 2}                 \* nullifier values presented to unlock_assets
MinConfirmations == {0, 1, 2}        \* initialize min_confirmations
BridgeAmounts == {4000}              \* lock_assets amounts
InitFees == {1000}                   \* initialize bridge_fee
NewFees == {1000, 1001}              \* update_fee new_fee

Providers == {"k1"}                  \* who signs add_liquidity
Traders == {"k1"}                    \* who signs commit_swap
SwapAccounts == {1}                  \* the SwapCommitment accounts commit_swap creates
SwapFees == {30}                     \* initialize swap_fee
LiquidityAmounts == {1100}           \* add_liquidity amount_a, amount_b
SwapAmounts == {4000}                \* execute_swap amount_in
MinAmountsOut == {3, 4}              \* execute_swap min_amount_out
Times == {59, 60, 600, 601}          \* instants the clock moves on to

(* A commitment: CommitmentLen bytes; the programs read byte 0 as the      *)
(* reserve.                                                                *)
Commitment(first, rest) == [i \in 1..CommitmentLen |-> IF i = 1 THEN first ELSE rest]
ZERO_COMMITMENT == Commitment(0, 0)  \* [0; 32]
InputCommitments == {Commitment(128, 128)}

(* BulletproofProof: the four fixed-length arrays verify_range_proof reads. *)
BulletproofProofs ==
    {[a |-> 32, s |-> 32, t1 |-> 32, t2 |-> 32, genuine |-> g] : g \in BOOLEAN}

(* ZkProof: three fixed-length byte arrays.  `genuine` stands for the      *)
(* bytes: whether they are a proof of the relation.                        *)
ZkProofs == {[a |-> 64, b |-> 128, c |-> 64, genuine |-> g] : g \in BOOLEAN}

----------------------------------------------------------------------------
(* privacy_bridge.rs *)

NoBridge ==
    [initialized |-> FALSE, authority |-> NoKey, min_confirmations |-> 0,
     bridge_fee |-> 0, total_locked |-> 0, total_unlocked |-> 0, paused |-> FALSE]

\* initialize: the `init` constraint refuses a second initialisation.
initialize(b, authority, min_confirmations, bridge_fee) ==
    IF b.initialized
    THEN [err |-> "AccountInUse", bridge |-> b]
    ELSE [err |-> "Ok",
          bridge |-> [initialized |-> TRUE, authority |-> authority,
                      min_confirmations |-> min_confirmations,
                      bridge_fee |-> bridge_fee, total_locked |-> 0,
                      total_unlocked |-> 0, paused |-> FALSE]]

\* fee = (amount as u128 * bridge_fee as u128 / 10000) as u64
lock_fee(amount, bridge_fee) ==
    ((amount * bridge_fee) \div BPS_DENOMINATOR) % (U64_MAX + 1)

lock_assets(b, amount, transferOk) ==
    LET fee == lock_fee(amount, b.bridge_fee)
        net_amount == amount - fee
        tx == [amount |-> net_amount, state |-> "Locked",
               confirmations |-> 0, nullifier |-> ZERO_NULLIFIER]
        fail(e) == [err |-> e, bridge |-> b, created |-> <<>>]
    IN  IF b.paused THEN fail("BridgePaused")
        ELSE IF fee > amount THEN fail("ArithmeticOverflow")
        ELSE IF ~transferOk THEN fail("TransferFailed")
        ELSE IF b.total_locked + net_amount > U64_MAX THEN fail("ArithmeticOverflow")
        ELSE [err |-> "Ok",
              bridge |-> [b EXCEPT !.total_locked = b.total_locked + net_amount],
              created |-> <<tx>>]

\* verify_proof: the mock checks the lengths of the proof's arrays only.
verify_proof(proof, nullifier, amount) ==
    proof.a = 64 /\ proof.b = 128 /\ proof.c = 64

\* The NullifierAccount an `init` constraint hands to the handler.
FreshNullifierAccount == [nullifier |-> ZERO_NULLIFIER, used |-> FALSE]

\* unlock_assets without line 113 (the confirmations check).
unlock_assets_unconfirmed(b, tx, nacc, proof, nullifier, transferOk) ==
    LET nacc2 == [nacc EXCEPT !.nullifier = nullifier, !.used = TRUE]
        tx2 == [tx EXCEPT !.nullifier = nullifier, !.state = "Completed"]
        fail(e) == [err |-> e, bridge |-> b, tx |-> tx, created |-> <<>>]
    IN  IF b.paused THEN fail("BridgePaused")
        ELSE IF tx.state # "Locked" THEN fail("InvalidState")
        ELSE IF nacc.used THEN fail("NullifierUsed")
        ELSE IF ~verify_proof(proof, nullifier, tx.amount) THEN fail("InvalidProof")
        ELSE IF ~transferOk THEN fail("TransferFailed")
        ELSE IF b.total_unlocked + tx2.amount > U64_MAX THEN fail("ArithmeticOverflow")
        ELSE [err |-> "Ok",
              bridge |-> [b EXCEPT !.total_unlocked = b.total_unlocked + tx2.amount],
              tx |-> tx2,
              created |-> <<nacc2>>]

\* unlock_assets whose writes of lines 126-133 survive a failed transfer.
unlock_assets_partial(b, tx, nacc, proof, nullifier, transferOk) ==
    LET nacc2 == [nacc EXCEPT !.nullifier = nullifier, !.used = TRUE]
        tx2 == [tx EXCEPT !.nullifier = nullifier, !.state = "Completed"]
        fail(e) == [err |-> e, bridge |-> b, tx |-> tx, created |-> <<>>]
    IN  IF b.paused THEN fail("BridgePaused")
        ELSE IF tx.state # "Locked" THEN fail("InvalidState")
        ELSE IF tx.confirmations < b.min_confirmations
             THEN fail("InsufficientConfirmations")
        ELSE IF nacc.used THEN fail("NullifierUsed")
        ELSE IF ~verify_proof(proof, nullifier, tx.amount) THEN fail("InvalidProof")
        ELSE IF ~transferOk
             THEN [err |-> "TransferFailed", bridge |-> b, tx |-> tx2,
                   created |-> <<nacc2>>]
        ELSE IF b.total_unlocked + tx2.amount > U64_MAX THEN fail("ArithmeticOverflow")
        ELSE [err |-> "Ok",
              bridge |-> [b EXCEPT !.total_unlocked = b.total_unlocked + tx2.amount],
              tx |-> tx2,
              created |-> <<nacc2>>]

\* unlock_assets without line 112 (the state check).
unlock_assets_any_state(b, tx, nacc, proof, nullifier, transferOk) ==
    LET nacc2 == [nacc EXCEPT !.nullifier = nullifier, !.used = TRUE]
        tx2 == [tx EXCEPT !.nullifier = nullifier, !.state = "Completed"]
        fail(e) == [err |-> e, bridge |-> b, tx |-> tx, created |-> <<>>]
    IN  IF b.paused THEN fail("BridgePaused")
        ELSE IF tx.confirmations < b.min_confirmations
             THEN fail("InsufficientConfirmations")
        ELSE IF nacc.used THEN fail("NullifierUsed")
        ELSE IF ~verify_proof(proof, nullifier, tx.amount) THEN fail("InvalidProof")
        ELSE IF ~transferOk THEN fail("TransferFailed")
        ELSE IF b.total_unlocked + tx2.amount > U64_MAX THEN fail("ArithmeticOverflow")
        ELSE [err |-> "Ok",
              bridge |-> [b EXCEPT !.total_unlocked = b.total_unlocked + tx2.amount],
              tx |-> tx2,
              created |-> <<nacc2>>]

unlock_assets(b, tx, nacc, proof, nullifier, transferOk) ==
    LET nacc2 == [nacc EXCEPT !.nullifier = nullifier, !.used = TRUE]
        tx2 == [tx EXCEPT !.nullifier = nullifier, !.state = "Completed"]
        fail(e) == [err |-> e, bridge |-> b, tx |-> tx, created |-> <<>>]
    IN  IF b.paused THEN fail("BridgePaused")
        ELSE IF tx.state # "Locked" THEN fail("InvalidState")
        ELSE IF tx.confirmations < b.min_confirmations
             THEN fail("InsufficientConfirmations")
        ELSE IF nacc.used THEN fail("NullifierUsed")
        ELSE IF ~verify_proof(proof, nullifier, tx.amount) THEN fail("InvalidProof")
        ELSE IF ~transferOk THEN fail("TransferFailed")
        ELSE IF b.total_unlocked + tx2.amount > U64_MAX THEN fail("ArithmeticOverflow")
        ELSE [err |-> "Ok",
              bridge |-> [b EXCEPT !.total_unlocked = b.total_unlocked + tx2.amount],
              tx |-> tx2,
              created |-> <<nacc2>>]

\* relay_transaction without line 172 (the state check).
relay_transaction_any_state(b, tx, relayer) ==
    LET confirmations == tx.confirmations + 1
        tx2 == [tx EXCEPT !.confirmations = confirmations,
                          !.state = IF confirmations >= b.min_confirmations
                                    THEN "Relayed" ELSE tx.state]
    IN  IF ~relayer.active THEN [err |-> "NotActiveRelayer", tx |-> tx]
        ELSE IF tx.confirmations = U8_MAX THEN [err |-> "ArithmeticOverflow", tx |-> tx]
        ELSE [err |-> "Ok", tx |-> tx2]

\* relay_transaction without line 169 (the relayer check).
relay_transaction_any_relayer(b, tx, relayer) ==
    LET confirmations == tx.confirmations + 1
        tx2 == [tx EXCEPT !.confirmations = confirmations,
                          !.state = IF confirmations >= b.min_confirmations
                                    THEN "Relayed" ELSE tx.state]
    IN  IF tx.state # "Locked" THEN [err |-> "InvalidState", tx |-> tx]
        ELSE IF tx.confirmations = U8_MAX THEN [err |-> "ArithmeticOverflow", tx |-> tx]
        ELSE [err |-> "Ok", tx |-> tx2]

relay_transaction(b, tx, relayer) ==
    LET confirmations == tx.confirmations + 1
        tx2 == [tx EXCEPT !.confirmations = confirmations,
                          !.state = IF confirmations >= b.min_confirmations
                                    THEN "Relayed" ELSE tx.state]
    IN  IF ~relayer.active THEN [err |-> "NotActiveRelayer", tx |-> tx]
        ELSE IF tx.state # "Locked" THEN [err |-> "InvalidState", tx |-> tx]
        ELSE IF tx.confirmations = U8_MAX THEN [err |-> "ArithmeticOverflow", tx |-> tx]
        ELSE [err |-> "Ok", tx |-> tx2]

\* add_relayer, gated by constraint = authority.key() == bridge.authority
add_relayer(b, authority, relayer_authority) ==
    IF authority # b.authority
    THEN [err |-> "ConstraintRaw", created |-> <<>>]
    ELSE [err |-> "Ok",
          created |-> <<[authority |-> relayer_authority, active |-> TRUE,
                         total_relayed |-> 0, slashed |-> FALSE]>>]

\* UpdateBridge: constraint = bridge.authority == authority.key()
UpdateBridge(b, authority) == b.authority = authority

\* update_fee without line 209 (the cap).
update_fee_uncapped(b, authority, new_fee) ==
    IF ~UpdateBridge(b, authority) THEN [err |-> "ConstraintRaw", bridge |-> b]
    ELSE [err |-> "Ok", bridge |-> [b EXCEPT !.bridge_fee = new_fee]]

update_fee(b, authority, new_fee) ==
    IF ~UpdateBridge(b, authority) THEN [err |-> "ConstraintRaw", bridge |-> b]
    ELSE IF new_fee > FEE_CAP THEN [err |-> "FeeTooHigh", bridge |-> b]
    ELSE [err |-> "Ok", bridge |-> [b EXCEPT !.bridge_fee = new_fee]]

pause(b, authority) ==
    IF ~UpdateBridge(b, authority) THEN [err |-> "ConstraintRaw", bridge |-> b]
    ELSE [err |-> "Ok", bridge |-> [b EXCEPT !.paused = TRUE]]

unpause(b, authority) ==
    IF ~UpdateBridge(b, authority) THEN [err |-> "ConstraintRaw", bridge |-> b]
    ELSE [err |-> "Ok", bridge |-> [b EXCEPT !.paused = FALSE]]

\* slash: the capability the specification requires of the bridge (the
\* source declares Relayer.slashed and never writes it after add_relayer).
slash(b, authority, relayer) ==
    IF ~UpdateBridge(b, authority) THEN [err |-> "ConstraintRaw", relayer |-> relayer]
    ELSE [err |-> "Ok",
          relayer |-> [relayer EXCEPT !.active = FALSE, !.slashed = TRUE]]

----------------------------------------------------------------------------
(* The instructions as actions.  `last` records the latest event: the      *)
(* instruction and its result.                                             *)

Call(op, err) == [op |-> op, err |-> err]

Initialize(authority, min_confirmations, bridge_fee) ==
    LET r == initialize(bridge, authority, min_confirmations, bridge_fee)
    IN  /\ bridge' = r.bridge
        /\ last' = Call("initialize", r.err)
        /\ UNCHANGED <<txs, nullifiers, relayers>>
        /\ UNCHANGED swapVars

LockAssets(amount, transferOk) ==
    /\ bridge.initialized
    /\ Len(txs) < MaxTx
    /\ LET r == lock_assets(bridge, amount, transferOk)
       IN  /\ bridge' = r.bridge
           /\ txs' = txs \o r.created
           /\ last' = Call("lock_assets", r.err)
    /\ UNCHANGED <<nullifiers, relayers>>
    /\ UNCHANGED swapVars

\* `fresh`: the nullifier account presented is a new one; presenting an
\* existing NullifierAccount makes the `init` constraint fail before the
\* handler runs.
UnlockAssets(t, fresh, proof, nullifier, transferOk) ==
    /\ bridge.initialized
    /\ t \in DOMAIN txs
    /\ fresh \/ Len(nullifiers) > 0
    /\ IF ~fresh
       THEN /\ last' = Call("unlock_assets", "AccountInUse")
            /\ UNCHANGED <<bridge, txs, nullifiers>>
       ELSE LET r == unlock_assets(bridge, txs[t], FreshNullifierAccount,
                                   proof, nullifier, transferOk)
            IN  /\ bridge' = r.bridge
                /\ txs' = [txs EXCEPT ![t] = r.tx]
                /\ nullifiers' = nullifiers \o r.created
                /\ last' = Call("unlock_assets", r.err)
    /\ UNCHANGED relayers
    /\ UNCHANGED swapVars

RelayTransaction(t, rl) ==
    /\ bridge.initialized
    /\ t \in DOMAIN txs
    /\ rl \in DOMAIN relayers
    /\ LET r == relay_transaction(bridge, txs[t], relayers[rl])
       IN  /\ txs' = [txs EXCEPT ![t] = r.tx]
           /\ last' = Call("relay_transaction", r.err)
    /\ UNCHANGED <<bridge, nullifiers, relayers>>
    /\ UNCHANGED swapVars

AddRelayer(authority, relayer_authority) ==
    /\ bridge.initialized
    /\ Len(relayers) < MaxRelayers
    /\ LET r == add_relayer(bridge, authority, relayer_authority)
       IN  /\ relayers' = relayers \o r.created
           /\ last' = Call("add_relayer", r.err)
    /\ UNCHANGED <<bridge, txs, nullifiers>>
    /\ UNCHANGED swapVars

UpdateFee(authority, new_fee) ==
    /\ bridge.initialized
    /\ LET r == update_fee(bridge, authority, new_fee)
       IN  /\ bridge' = r.bridge
           /\ last' = Call("update_fee", r.err)
    /\ UNCHANGED <<txs, nullifiers, relayers>>
    /\ UNCHANGED swapVars

Pause(authority) ==
    /\ bridge.initialized
    /\ LET r == pause(bridge, authority)
       IN  /\ bridge' = r.bridge
           /\ last' = Call("pause", r.err)
    /\ UNCHANGED <<txs, nullifiers, relayers>>
    /\ UNCHANGED swapVars

Unpause(authority) ==
    /\ bridge.initialized
    /\ LET r == unpause(bridge, authority)
       IN  /\ bridge' = r.bridge
           /\ last' = Call("unpause", r.err)
    /\ UNCHANGED <<txs, nullifiers, relayers>>
    /\ UNCHANGED swapVars

Slash(authority, rl) ==
    /\ bridge.initialized
    /\ rl \in DOMAIN relayers
    /\ LET r == slash(bridge, authority, relayers[rl])
       IN  /\ relayers' = [relayers EXCEPT ![rl] = r.relayer]
           /\ last' = Call("slash", r.err)
    /\ UNCHANGED <<bridge, txs, nullifiers>>
    /\ UNCHANGED swapVars

----------------------------------------------------------------------------
(* confidential_swap.rs *)

NoConfig ==
    [initialized |-> FALSE, authority |-> NoKey, swap_fee |-> 0, paused |-> FALSE,
     total_pools |-> 0]

swap_initialize(c, authority, swap_fee) ==
    IF c.initialized
    THEN [err |-> "AccountInUse", config |-> c]
    ELSE [err |-> "Ok",
          config |-> [initialized |-> TRUE, authority |-> authority,
                      swap_fee |-> swap_fee, paused |-> FALSE, total_pools |-> 0]]

create_pool(c) ==
    IF c.paused THEN [err |-> "SwapPaused", config |-> c, created |-> <<>>]
    ELSE IF c.total_pools + 1 > U64_MAX
         THEN [err |-> "ArithmeticOverflow", config |-> c, created |-> <<>>]
    ELSE [err |-> "Ok",
          config |-> [c EXCEPT !.total_pools = c.total_pools + 1],
          created |-> <<[reserve_a_commitment |-> ZERO_COMMITMENT,
                         reserve_b_commitment |-> ZERO_COMMITMENT,
                         total_supply |-> 0, initialized |-> TRUE]>>]

\* add_commitments with saturating_add in place of wrapping_add.
add_commitments_saturating(c1, c2) ==
    [i \in 1..CommitmentLen |-> IF c1[i] + c2[i] > U8_MAX THEN U8_MAX ELSE c1[i] + c2[i]]

\* result[i] = c1[i].wrapping_add(c2[i])
add_commitments(c1, c2) == [i \in 1..CommitmentLen |-> (c1[i] + c2[i]) % (U8_MAX + 1)]

\* result[i] = c1[i].wrapping_sub(c2[i])
subtract_commitments(c1, c2) ==
    [i \in 1..CommitmentLen |-> (c1[i] - c2[i] + U8_MAX + 1) % (U8_MAX + 1)]

\* verify_range_proof: the mock checks the lengths of four arrays only.
verify_range_proof(commitment, proof) ==
    proof.a = 32 /\ proof.s = 32 /\ proof.t1 = 32 /\ proof.t2 = 32

\* floor(sqrt(n)) for n below 2^(2 * U64Bits + 1)
RECURSIVE SqrtBetween(_, _, _)
SqrtBetween(n, lo, hi) ==
    IF lo = hi THEN lo
    ELSE LET mid == (lo + hi + 1) \div 2
         IN  IF mid * mid <= n THEN SqrtBetween(n, mid, hi)
             ELSE SqrtBetween(n, lo, mid - 1)

\* The number of binary digits of n.
RECURSIVE BitLen(_)
BitLen(n) == IF n = 0 THEN 0 ELSE 1 + BitLen(n \div 2)

\* The multiple of g nearest to the real number whose floor is n; `above`
\* says the real exceeds n, ties go to the even multiple.
RoundToMultiple(n, above, g) ==
    LET q == n \div g
        r == n % g
        up == \/ 2 * r > g
              \/ 2 * r = g /\ (above \/ q % 2 = 1)
    IN  IF up THEN (q + 1) * g ELSE q * g

\* `n as f64`: n rounded to F64Mantissa significant bits, ties to even.
as_f64(n) ==
    IF BitLen(n) <= F64Mantissa THEN n
    ELSE RoundToMultiple(n, FALSE, 2 ^ (BitLen(n) - F64Mantissa))

\* `x.sqrt() as u64` for a float x holding an integer: the square root
\* rounded to F64Mantissa significant bits, then truncated towards zero and
\* saturated into u64.
f64_sqrt_as_u64(x) ==
    LET s == SqrtBetween(x, 0, U64_MAX + 1)
        e == BitLen(s)
        k == F64Mantissa - e
        \* integers skipped below (s + 1)^2 for the root to round up to s + 1
        slack == IF (s + 1) % (2 ^ k) = 0 THEN (s + 1) \div (2 ^ k) - 1
                 ELSE (s + 1) \div (2 ^ k)
        rounded == IF e <= F64Mantissa
                   THEN IF x >= (s + 1) * (s + 1) - slack THEN s + 1 ELSE s
                   ELSE RoundToMultiple(s, x > s * s, 2 ^ (e - F64Mantissa))
    IN  IF rounded > U64_MAX THEN U64_MAX ELSE rounded

\* ((amount_a as u128 * amount_b as u128) as f64).sqrt() as u64
sqrt_u64(n) == f64_sqrt_as_u64(as_f64(n))

Min(x, y) == IF x <= y THEN x ELSE y

\* The LiquidityPosition an `init_if_needed` constraint creates.
FreshPosition == [pool |-> 0, user |-> NoKey, liquidity |-> 0]

\* add_liquidity; pool_key and user are pool.key() and user.key().
add_liquidity(c, pool, position, pool_key, user, amount_a, amount_b, amount_a_commitment, amount_b_commitment, proof_a, proof_b, transferAOk, transferBOk) ==
    LET fail(e) == [err |-> e, pool |-> pool, position |-> position, liquidity |-> 0]
        reserve_a == pool.reserve_a_commitment[1]
        reserve_b == pool.reserve_b_commitment[1]
        first == pool.total_supply = 0
        sqrt == sqrt_u64(amount_a * amount_b)
        liquidity ==
            IF first THEN sqrt - MINIMUM_LIQUIDITY
            ELSE Min((amount_a * pool.total_supply) \div reserve_a,
                     (amount_b * pool.total_supply) \div reserve_b) % (U64_MAX + 1)
    IN  IF c.paused THEN fail("SwapPaused")
        ELSE IF ~pool.initialized THEN fail("PoolNotInitialized")
        ELSE IF ~verify_range_proof(amount_a_commitment, proof_a) THEN fail("InvalidProof")
        ELSE IF ~verify_range_proof(amount_b_commitment, proof_b) THEN fail("InvalidProof")
        ELSE IF ~transferAOk \/ ~transferBOk THEN fail("TransferFailed")
        ELSE IF first /\ sqrt < MINIMUM_LIQUIDITY THEN fail("InsufficientLiquidity")
        ELSE IF ~first /\ (reserve_a = 0 \/ reserve_b = 0) THEN fail("Panic")
        ELSE IF ~(liquidity > 0) THEN fail("InsufficientLiquidity")
        ELSE IF pool.total_supply + liquidity > U64_MAX THEN fail("ArithmeticOverflow")
        ELSE IF position.liquidity + liquidity > U64_MAX THEN fail("ArithmeticOverflow")
        ELSE [err |-> "Ok",
              pool |-> [pool EXCEPT
                  !.reserve_a_commitment =
                      add_commitments(pool.reserve_a_commitment, amount_a_commitment),
                  !.reserve_b_commitment =
                      add_commitments(pool.reserve_b_commitment, amount_b_commitment),
                  !.total_supply = pool.total_supply + liquidity],
              position |-> [pool |-> pool_key, user |-> user,
                            liquidity |-> position.liquidity + liquidity],
              liquidity |-> liquidity]

commit_swap(c, user, pool_key, input_commitment, output_commitment, timestamp) ==
    IF c.paused THEN [err |-> "SwapPaused", created |-> <<>>]
    ELSE [err |-> "Ok",
          created |-> <<[user |-> user, pool |-> pool_key,
                         input_commitment |-> input_commitment,
                         output_commitment |-> output_commitment,
                         timestamp |-> timestamp,
                         revealed |-> FALSE, executed |-> FALSE]>>]

\* calculate_output_amount; the division panics on a zero denominator.
calculate_output_amount(amount_in, reserve_in, reserve_out) ==
    LET amount_in_with_fee == (amount_in * 997) \div 1000
        numerator == amount_in_with_fee * reserve_out
        denominator == (reserve_in * 1000) + amount_in_with_fee
    IN  IF denominator = 0 THEN [panic |-> TRUE, amount |-> 0]
        ELSE [panic |-> FALSE, amount |-> (numerator \div denominator) % (U64_MAX + 1)]

swap_fee_of(amount_in, swap_fee) ==
    ((amount_in * swap_fee) \div BPS_DENOMINATOR) % (U64_MAX + 1)

\* execute_swap without line 202 (the executed check).
execute_swap_again(c, swap, pool, user, current_time, amount_in, min_amount_out, proof, transferInOk, transferOutOk) ==
    LET fail(e) == [err |-> e, swap |-> swap, pool |-> pool, amount_out |-> 0]
        fee == swap_fee_of(amount_in, c.swap_fee)
        amount_in_with_fee == amount_in - fee
        out == calculate_output_amount(amount_in_with_fee,
                                       pool.reserve_a_commitment[1],
                                       pool.reserve_b_commitment[1])
    IN  IF c.paused THEN fail("SwapPaused")
        ELSE IF swap.user # user THEN fail("NotSwapOwner")
        ELSE IF ~(current_time >= swap.timestamp + REVEAL_DELAY) THEN fail("RevealTooEarly")
        ELSE IF ~(current_time <= swap.timestamp + REVEAL_WINDOW) THEN fail("SwapExpired")
        ELSE IF ~verify_range_proof(swap.input_commitment, proof) THEN fail("InvalidProof")
        ELSE IF fee > amount_in THEN fail("ArithmeticOverflow")
        ELSE IF out.panic THEN fail("Panic")
        ELSE IF ~(out.amount >= min_amount_out) THEN fail("SlippageExceeded")
        ELSE IF ~transferInOk \/ ~transferOutOk THEN fail("TransferFailed")
        ELSE [err |-> "Ok",
              swap |-> [swap EXCEPT !.revealed = TRUE, !.executed = TRUE],
              pool |-> [pool EXCEPT
                  !.reserve_a_commitment =
                      add_commitments(pool.reserve_a_commitment, swap.input_commitment),
                  !.reserve_b_commitment =
                      subtract_commitments(pool.reserve_b_commitment,
                                           swap.output_commitment)],
              amount_out |-> out.amount]

\* execute_swap whose window of lines 204-212 is open at both ends.
execute_swap_open_window(c, swap, pool, user, current_time, amount_in, min_amount_out, proof, transferInOk, transferOutOk) ==
    LET fail(e) == [err |-> e, swap |-> swap, pool |-> pool, amount_out |-> 0]
        fee == swap_fee_of(amount_in, c.swap_fee)
        amount_in_with_fee == amount_in - fee
        out == calculate_output_amount(amount_in_with_fee,
                                       pool.reserve_a_commitment[1],
                                       pool.reserve_b_commitment[1])
    IN  IF c.paused THEN fail("SwapPaused")
        ELSE IF swap.user # user THEN fail("NotSwapOwner")
        ELSE IF swap.executed THEN fail("AlreadyExecuted")
        ELSE IF ~(current_time > swap.timestamp + REVEAL_DELAY) THEN fail("RevealTooEarly")
        ELSE IF ~(current_time < swap.timestamp + REVEAL_WINDOW) THEN fail("SwapExpired")
        ELSE IF ~verify_range_proof(swap.input_commitment, proof) THEN fail("InvalidProof")
        ELSE IF fee > amount_in THEN fail("ArithmeticOverflow")
        ELSE IF out.panic THEN fail("Panic")
        ELSE IF ~(out.amount >= min_amount_out) THEN fail("SlippageExceeded")
        ELSE IF ~transferInOk \/ ~transferOutOk THEN fail("TransferFailed")
        ELSE [err |-> "Ok",
              swap |-> [swap EXCEPT !.revealed = TRUE, !.executed = TRUE],
              pool |-> [pool EXCEPT
                  !.reserve_a_commitment =
                      add_commitments(pool.reserve_a_commitment, swap.input_commitment),
                  !.reserve_b_commitment =
                      subtract_commitments(pool.reserve_b_commitment,
                                           swap.output_commitment)],
              amount_out |-> out.amount]

\* execute_swap without line 232 (the slippage check).
execute_swap_any_price(c, swap, pool, user, current_time, amount_in, min_amount_out, proof, transferInOk, transferOutOk) ==
    LET fail(e) == [err |-> e, swap |-> swap, pool |-> pool, amount_out |-> 0]
        fee == swap_fee_of(amount_in, c.swap_fee)
        amount_in_with_fee == amount_in - fee
        out == calculate_output_amount(amount_in_with_fee,
                                       pool.reserve_a_commitment[1],
                                       pool.reserve_b_commitment[1])
    IN  IF c.paused THEN fail("SwapPaused")
        ELSE IF swap.user # user THEN fail("NotSwapOwner")
        ELSE IF swap.executed THEN fail("AlreadyExecuted")
        ELSE IF ~(current_time >= swap.timestamp + REVEAL_DELAY) THEN fail("RevealTooEarly")
        ELSE IF ~(current_time <= swap.timestamp + REVEAL_WINDOW) THEN fail("SwapExpired")
        ELSE IF ~verify_range_proof(swap.input_commitment, proof) THEN fail("InvalidProof")
        ELSE IF fee > amount_in THEN fail("ArithmeticOverflow")
        ELSE IF out.panic THEN fail("Panic")
        ELSE IF ~transferInOk \/ ~transferOutOk THEN fail("TransferFailed")
        ELSE [err |-> "Ok",
              swap |-> [swap EXCEPT !.revealed = TRUE, !.executed = TRUE],
              pool |-> [pool EXCEPT
                  !.reserve_a_commitment =
                      add_commitments(pool.reserve_a_commitment, swap.input_commitment),
                  !.reserve_b_commitment =
                      subtract_commitments(pool.reserve_b_commitment,
                                           swap.output_commitment)],
              amount_out |-> out.amount]

\* execute_swap without line 201 (the owner check).
execute_swap_any_signer(c, swap, pool, user, current_time, amount_in, min_amount_out, proof, transferInOk, transferOutOk) ==
    LET fail(e) == [err |-> e, swap |-> swap, pool |-> pool, amount_out |-> 0]
        fee == swap_fee_of(amount_in, c.swap_fee)
        amount_in_with_fee == amount_in - fee
        out == calculate_output_amount(amount_in_with_fee,
                                       pool.reserve_a_commitment[1],
                                       pool.reserve_b_commitment[1])
    IN  IF c.paused THEN fail("SwapPaused")
        ELSE IF swap.executed THEN fail("AlreadyExecuted")
        ELSE IF ~(current_time >= swap.timestamp + REVEAL_DELAY) THEN fail("RevealTooEarly")
        ELSE IF ~(current_time <= swap.timestamp + REVEAL_WINDOW) THEN fail("SwapExpired")
        ELSE IF ~verify_range_proof(swap.input_commitment, proof) THEN fail("InvalidProof")
        ELSE IF fee > amount_in THEN fail("ArithmeticOverflow")
        ELSE IF out.panic THEN fail("Panic")
        ELSE IF ~(out.amount >= min_amount_out) THEN fail("SlippageExceeded")
        ELSE IF ~transferInOk \/ ~transferOutOk THEN fail("TransferFailed")
        ELSE [err |-> "Ok",
              swap |-> [swap EXCEPT !.revealed = TRUE, !.executed = TRUE],
              pool |-> [pool EXCEPT
                  !.reserve_a_commitment =
                      add_commitments(pool.reserve_a_commitment, swap.input_commitment),
                  !.reserve_b_commitment =
                      subtract_commitments(pool.reserve_b_commitment,
                                           swap.output_commitment)],
              amount_out |-> out.amount]

\* execute_swap without lines 209-212 (the expiry check).
execute_swap_no_expiry(c, swap, pool, user, current_time, amount_in, min_amount_out, proof, transferInOk, transferOutOk) ==
    LET fail(e) == [err |-> e, swap |-> swap, pool |-> pool, amount_out |-> 0]
        fee == swap_fee_of(amount_in, c.swap_fee)
        amount_in_with_fee == amount_in - fee
        out == calculate_output_amount(amount_in_with_fee,
                                       pool.reserve_a_commitment[1],
                                       pool.reserve_b_commitment[1])
    IN  IF c.paused THEN fail("SwapPaused")
        ELSE IF swap.user # user THEN fail("NotSwapOwner")
        ELSE IF swap.executed THEN fail("AlreadyExecuted")
        ELSE IF ~(current_time >= swap.timestamp + REVEAL_DELAY) THEN fail("RevealTooEarly")
        ELSE IF ~verify_range_proof(swap.input_commitment, proof) THEN fail("InvalidProof")
        ELSE IF fee > amount_in THEN fail("ArithmeticOverflow")
        ELSE IF out.panic THEN fail("Panic")
        ELSE IF ~(out.amount >= min_amount_out) THEN fail("SlippageExceeded")
        ELSE IF ~transferInOk \/ ~transferOutOk THEN fail("TransferFailed")
        ELSE [err |-> "Ok",
              swap |-> [swap EXCEPT !.revealed = TRUE, !.executed = TRUE],
              pool |-> [pool EXCEPT
                  !.reserve_a_commitment =
                      add_commitments(pool.reserve_a_commitment, swap.input_commitment),
                  !.reserve_b_commitment =
                      subtract_commitments(pool.reserve_b_commitment,
                                           swap.output_commitment)],
              amount_out |-> out.amount]

execute_swap(c, swap, pool, user, current_time, amount_in, min_amount_out, proof, transferInOk, transferOutOk) ==
    LET fail(e) == [err |-> e, swap |-> swap, pool |-> pool, amount_out |-> 0]
        fee == swap_fee_of(amount_in, c.swap_fee)
        amount_in_with_fee == amount_in - fee
        out == calculate_output_amount(amount_in_with_fee,
                                       pool.reserve_a_commitment[1],
                                       pool.reserve_b_commitment[1])
    IN  IF c.paused THEN fail("SwapPaused")
        ELSE IF swap.user # user THEN fail("NotSwapOwner")
        ELSE IF swap.executed THEN fail("AlreadyExecuted")
        ELSE IF ~(current_time >= swap.timestamp + REVEAL_DELAY) THEN fail("RevealTooEarly")
        ELSE IF ~(current_time <= swap.timestamp + REVEAL_WINDOW) THEN fail("SwapExpired")
        ELSE IF ~verify_range_proof(swap.input_commitment, proof) THEN fail("InvalidProof")
        ELSE IF fee > amount_in THEN fail("ArithmeticOverflow")
        ELSE IF out.panic THEN fail("Panic")
        ELSE IF ~(out.amount >= min_amount_out) THEN fail("SlippageExceeded")
        ELSE IF ~transferInOk \/ ~transferOutOk THEN fail("TransferFailed")
        ELSE [err |-> "Ok",
              swap |-> [swap EXCEPT !.revealed = TRUE, !.executed = TRUE],
              pool |-> [pool EXCEPT
                  !.reserve_a_commitment =
                      add_commitments(pool.reserve_a_commitment, swap.input_commitment),
                  !.reserve_b_commitment =
                      subtract_commitments(pool.reserve_b_commitment,
                                           swap.output_commitment)],
              amount_out |-> out.amount]

\* remove_liquidity; the pro-rata division panics on a zero total supply.
remove_liquidity(pool, position, liquidity) ==
    LET fail(e) == [err |-> e, pool |-> pool, position |-> position,
                    amount_a |-> 0, amount_b |-> 0]
    IN  IF ~(position.liquidity >= liquidity) THEN fail("InsufficientLiquidity")
        ELSE IF pool.total_supply = 0 THEN fail("Panic")
        ELSE IF pool.total_supply < liquidity THEN fail("ArithmeticOverflow")
        ELSE [err |-> "Ok",
              pool |-> [pool EXCEPT !.total_supply = pool.total_supply - liquidity],
              position |-> [position EXCEPT !.liquidity = position.liquidity - liquidity],
              amount_a |-> ((liquidity * pool.reserve_a_commitment[1])
                               \div pool.total_supply) % (U64_MAX + 1),
              amount_b |-> ((liquidity * pool.reserve_b_commitment[1])
                               \div pool.total_supply) % (U64_MAX + 1)]

----------------------------------------------------------------------------
(* The swap program's instructions as actions *)

SwapInitialize(authority, swap_fee) ==
    LET r == swap_initialize(config, authority, swap_fee)
    IN  /\ config' = r.config
        /\ last' = Call("swap_initialize", r.err)
        /\ UNCHANGED <<pools, positions, swaps, now>>
        /\ UNCHANGED bridgeVars

CreatePool ==
    /\ config.initialized
    /\ Len(pools) < MaxPools
    /\ LET r == create_pool(config)
       IN  /\ config' = r.config
           /\ pools' = pools \o r.created
           /\ last' = Call("create_pool", r.err)
    /\ UNCHANGED <<positions, swaps, now>>
    /\ UNCHANGED bridgeVars

\* `i` is the position account presented: an existing one, or (init_if_needed)
\* the next new one.
AddLiquidity(p, i, user, amount_a, amount_b, ca, cb, proof_a, proof_b, okA, okB) ==
    /\ config.initialized
    /\ p \in DOMAIN pools
    /\ i \in 1..(Len(positions) + 1)
    /\ i <= MaxPositions
    /\ LET position == IF i \in DOMAIN positions THEN positions[i] ELSE FreshPosition
           r == add_liquidity(config, pools[p], position, p, user, amount_a, amount_b,
                              ca, cb, proof_a, proof_b, okA, okB)
       IN  /\ pools' = [pools EXCEPT ![p] = r.pool]
           /\ positions' = IF r.err # "Ok" THEN positions
                           ELSE IF i \in DOMAIN positions
                                THEN [positions EXCEPT ![i] = r.position]
                                ELSE Append(positions, r.position)
           /\ last' = Call("add_liquidity", r.err)
    /\ UNCHANGED <<config, swaps, now>>
    /\ UNCHANGED bridgeVars

CommitSwap(user, p, input_commitment, output_commitment) ==
    /\ config.initialized
    /\ p \in DOMAIN pools
    /\ Len(swaps) + 1 \in SwapAccounts
    /\ LET r == commit_swap(config, user, p, input_commitment, output_commitment, now)
       IN  /\ swaps' = swaps \o r.created
           /\ last' = Call("commit_swap", r.err)
    /\ UNCHANGED <<config, pools, positions, now>>
    /\ UNCHANGED bridgeVars

ExecuteSwap(s, p, user, amount_in, min_amount_out, proof, okIn, okOut) ==
    /\ config.initialized
    /\ s \in DOMAIN swaps
    /\ p \in DOMAIN pools
    /\ LET r == execute_swap(config, swaps[s], pools[p], user, now, amount_in,
                             min_amount_out, proof, okIn, okOut)
       IN  /\ swaps' = [swaps EXCEPT ![s] = r.swap]
           /\ pools' = [pools EXCEPT ![p] = r.pool]
           /\ last' = Call("execute_swap", r.err)
    /\ UNCHANGED <<config, positions, now>>
    /\ UNCHANGED bridgeVars

RemoveLiquidity(p, i, user, liquidity) ==
    /\ p \in DOMAIN pools
    /\ i \in DOMAIN positions
    /\ LET r == remove_liquidity(pools[p], positions[i], liquidity)
       IN  /\ pools' = [pools EXCEPT ![p] = r.pool]
           /\ positions' = [positions EXCEPT ![i] = r.position]
           /\ last' = Call("remove_liquidity", r.err)
    /\ UNCHANGED <<config, swaps, now>>
    /\ UNCHANGED bridgeVars

\* The host clock moves on to a later instant.
Tick(t) ==
    /\ t > now
    /\ now' = t
    /\ last' = Call("clock", "Ok")
    /\ UNCHANGED <<config, pools, positions, swaps>>
    /\ UNCHANGED bridgeVars

Init ==
    /\ bridge = NoBridge
    /\ txs = <<>>
    /\ nullifiers = <<>>
    /\ relayers = <<>>
    /\ config = NoConfig
    /\ pools = <<>>
    /\ positions = <<>>
    /\ swaps = <<>>
    /\ now = 0
    /\ last = Call("none", "Ok")

BridgeNext ==
    \/ \E k \in Deployers, m \in MinConfirmations, f \in InitFees : Initialize(k, m, f)
    \/ \E a \in BridgeAmounts, ok \in BOOLEAN : LockAssets(a, ok)
    \/ \E t \in 1..MaxTx, fresh \in BOOLEAN, p \in ZkProofs,
          n \in Nullifiers, ok \in BOOLEAN : UnlockAssets(t, fresh, p, n, ok)
    \/ \E t \in 1..MaxTx, rl \in 1..MaxRelayers : RelayTransaction(t, rl)
    \/ \E k \in Keys, ra \in Keys : AddRelayer(k, ra)
    \/ \E k \in Keys, f \in NewFees : UpdateFee(k, f)
    \/ \E k \in Keys : Pause(k)
    \/ \E k \in Keys : Unpause(k)

BridgeSpec == Init /\ [][BridgeNext]_vars

\* The bridge with the slashing capability of the specification added.
SlashNext ==
    \/ BridgeNext
    \/ \E k \in Keys, rl \in 1..MaxRelayers : Slash(k, rl)

SlashSpec == Init /\ [][SlashNext]_vars

\* The bridge seen from its depositors: locks large enough for total_locked
\* to leave u64, under fees the authority moves.
LockAmounts == {4005, 16000}         \* lock_assets amount
LockInitFees == {1000, U16_MAX}      \* initialize bridge_fee
LockFees == {0, 1000, 1001}          \* update_fee new_fee

LockNext ==
    \/ \E k \in Deployers, m \in MinConfirmations, f \in LockInitFees : Initialize(k, m, f)
    \/ \E a \in LockAmounts, ok \in BOOLEAN : LockAssets(a, ok)
    \/ \E k \in Keys, f \in LockFees : UpdateFee(k, f)
    \/ \E k \in Keys : Pause(k)
    \/ \E k \in Keys : Unpause(k)

LockSpec == Init /\ [][LockNext]_vars

\* The two token transfers of an instruction: both go through, or the first
\* fails, or the second does.
TransferOutcomes == {<<TRUE, TRUE>>, <<FALSE, TRUE>>, <<TRUE, FALSE>>}

SetUp ==
    \/ \E k \in Deployers, f \in SwapFees : SwapInitialize(k, f)
    \/ CreatePool

\* add_liquidity with one of the position accounts `accounts`.
ProvideLiquidity(accounts) ==
    \E p \in 1..MaxPools, i \in accounts, k \in Providers,
       a \in LiquidityAmounts, b \in LiquidityAmounts,
       ca \in InputCommitments, cb \in InputCommitments,
       pr \in BulletproofProofs, ok \in TransferOutcomes :
       AddLiquidity(p, i, k, a, b, ca, cb, pr, pr, ok[1], ok[2])

\* The pool program seen from its liquidity providers.
LiquidityNext ==
    \/ SetUp
    \/ ProvideLiquidity(1..MaxPositions)
    \/ \E p \in 1..MaxPools, i \in DOMAIN positions, k \in Keys :
          \E l \in {positions[i].liquidity, positions[i].liquidity + 1} :
              RemoveLiquidity(p, i, k, l)

LiquiditySpec == Init /\ [][LiquidityNext]_vars

\* The pool program seen from its traders: one provider position funds the
\* pools.
SwapNext ==
    \/ SetUp
    \/ ProvideLiquidity({1})
    \/ \E k \in Traders, p \in 1..MaxPools, ci \in InputCommitments,
          co \in InputCommitments : CommitSwap(k, p, ci, co)
    \/ \E s \in SwapAccounts, p \in 1..MaxPools, k \in Keys, a \in SwapAmounts,
          m \in MinAmountsOut, pr \in BulletproofProofs, ok \in TransferOutcomes :
          ExecuteSwap(s, p, k, a, m, pr, ok[1], ok[2])
    \/ \E t \in Times : Tick(t)

SwapSpec == Init /\ [][SwapNext]_vars

----------------------------------------------------------------------------
(* The pool program seen from the minting of liquidity: deposits large     *)
(* enough for the square root and the pro-rata products to matter.         *)

MintAmounts == {100, 2047, 2049}               \* amount_a, amount_b

MintLiquidity ==
    \E p \in 1..MaxPools, i \in 1..MaxPositions, k \in Providers,
       a \in MintAmounts, b \in MintAmounts, ca \in InputCommitments,
       pr \in BulletproofProofs, ok \in TransferOutcomes :
       AddLiquidity(p, i, k, a, b, ca, ca, pr, pr, ok[1], ok[2])

MintNext ==
    \/ SetUp
    \/ MintLiquidity
    \/ \E p \in 1..MaxPools, i \in DOMAIN positions, k \in Providers :
          \E l \in {positions[i].liquidity, positions[i].liquidity + 1} :
              RemoveLiquidity(p, i, k, l)

MintSpec == Init /\ [][MintNext]_vars

----------------------------------------------------------------------------
(* calculate_output_amount on its own: the initial states draw the         *)
(* arguments, the action applies the function.                             *)

PricingAmounts == {0, 1, 100, 500, 1000}       \* amount_in
PricingReserves == {0, 1, 255, 1000, 2000}     \* reserve_in, reserve_out

PricingInit ==
    /\ bridge = NoBridge /\ txs = <<>> /\ nullifiers = <<>> /\ relayers = <<>>
    /\ config = NoConfig /\ pools = <<>> /\ positions = <<>> /\ swaps = <<>>
    /\ now = 0
    /\ \E a \in PricingAmounts, rin \in PricingReserves, rout \in PricingReserves :
          last = [op |-> "pricing_input", err |-> "Ok", args |-> <<a, rin, rout>>]

CalculateOutputAmount ==
    /\ last.op = "pricing_input"
    /\ LET r == calculate_output_amount(last.args[1], last.args[2], last.args[3])
       IN  last' = [op |-> "calculate_output_amount",
                    err |-> IF r.panic THEN "Panic" ELSE "Ok",
                    args |-> last.args, result |-> r.amount]
    /\ UNCHANGED bridgeVars
    /\ UNCHANGED swapVars

PricingSpec == PricingInit /\ [][CalculateOutputAmount]_vars

----------------------------------------------------------------------------
(* add_commitments and subtract_commitments on their own: the initial      *)
(* states draw three commitments, the action combines them.                *)

CommitmentBytes == {0, 1, U8_MAX}
Commitments == [1..CommitmentLen -> CommitmentBytes]

AlgebraInit ==
    /\ bridge = NoBridge /\ txs = <<>> /\ nullifiers = <<>> /\ relayers = <<>>
    /\ config = NoConfig /\ pools = <<>> /\ positions = <<>> /\ swaps = <<>>
    /\ now = 0
    /\ \E a \in Commitments, b \in Commitments, c \in Commitments :
          last = [op |-> "commitments", err |-> "Ok", args |-> <<a, b, c>>]

CombineCommitments ==
    /\ last.op = "commitments"
    /\ LET a == last.args[1]
           b == last.args[2]
           c == last.args[3]
       IN  last' = [op |-> "combine", err |-> "Ok", args |-> last.args,
                    left |-> add_commitments(add_commitments(a, b), c),
                    right |-> add_commitments(a, add_commitments(b, c)),
                    back |-> subtract_commitments(add_commitments(a, b), b),
                    self |-> subtract_commitments(a, a)]
    /\ UNCHANGED bridgeVars
    /\ UNCHANGED swapVars

AlgebraSpec == AlgebraInit /\ [][CombineCommitments]_vars

----------------------------------------------------------------------------
(* Claims about the bridge *)

\* The nullifier values recorded as used.
Consumed == {nullifiers[i].nullifier : i \in {j \in DOMAIN nullifiers : nullifiers[j].used}}

Completed == {t \in DOMAIN txs : txs[t].state = "Completed"}

RECURSIVE SumAmounts(_)
SumAmounts(S) ==
    IF S = {} THEN 0
    ELSE LET t == CHOOSE x \in S : TRUE IN txs[t].amount + SumAmounts(S \ {t})

\* C1: once an unlock_assets has succeeded with nullifier n, every later
\* unlock_assets that presents n fails and changes no state.
C1_NullifierConsumedOnce ==
    [][\A t \in 1..MaxTx, fresh \in BOOLEAN, p \in ZkProofs, n \in Nullifiers,
          ok \in BOOLEAN :
          (UnlockAssets(t, fresh, p, n, ok) /\ n \in Consumed)
              => (last'.err # "Ok" /\ UNCHANGED bridgeVars)]_vars

\* C2: on a bridge configured with min_confirmations >= 1, unlock_assets on
\* a Relayed transaction, unpaused, with a verifying proof, an unused
\* nullifier, a new nullifier account and a transfer that goes through,
\* succeeds and moves the transaction to Completed.
C2_RelayedThenCompleted ==
    [][\A t \in 1..MaxTx, p \in ZkProofs, n \in Nullifiers :
          (/\ UnlockAssets(t, TRUE, p, n, TRUE)
           /\ bridge.min_confirmations >= 1
           /\ txs[t].state = "Relayed"
           /\ ~bridge.paused
           /\ verify_proof(p, n, txs[t].amount)
           /\ n \notin Consumed)
              => (last'.err = "Ok" /\ txs'[t].state = "Completed")]_vars

\* C3: no transaction is Completed with fewer confirmations than
\* min_confirmations; unlock_assets on a transaction below the minimum fails
\* and leaves the bridge, the transaction and the nullifier accounts as they
\* were, with InsufficientConfirmations on a bridge that is not paused; a
\* failed unlock_assets step changes none of them.
C3_CompletedHasConfirmations ==
    \A t \in DOMAIN txs :
        txs[t].state = "Completed" => txs[t].confirmations >= bridge.min_confirmations

C3_UnlockBelowMinimum ==
    \A t \in DOMAIN txs, p \in ZkProofs, n \in Nullifiers, ok \in BOOLEAN :
       LET r == unlock_assets(bridge, txs[t], FreshNullifierAccount, p, n, ok)
       IN  txs[t].confirmations < bridge.min_confirmations =>
              /\ r.err # "Ok"
              /\ r.bridge = bridge /\ r.tx = txs[t] /\ r.created = <<>>
              /\ ~bridge.paused => r.err = "InsufficientConfirmations"

C3_FailedUnlockStep ==
    (last'.op = "unlock_assets" /\ last'.err # "Ok")
        => UNCHANGED <<bridge, txs, nullifiers>>

C3_NoUnlockBelowMinConfirmations ==
    /\ [](C3_CompletedHasConfirmations /\ C3_UnlockBelowMinimum)
    /\ [][C3_FailedUnlockStep]_vars

C3_Witness ==
    /\ last.op = "unlock_assets"
    /\ last.err = "InsufficientConfirmations"
    /\ bridge.min_confirmations = 2
    /\ \A t \in DOMAIN txs : txs[t].state = "Locked" /\ txs[t].confirmations = 1

\* C6 as stated: relay_transaction by an active relayer on a Relayed
\* transaction succeeds, increments the count and leaves the state Relayed.
C6_RelayIdempotentAfterRelayed ==
    \A t \in DOMAIN txs, rl \in DOMAIN relayers :
       LET r == relay_transaction(bridge, txs[t], relayers[rl])
       IN  (txs[t].state = "Relayed" /\ relayers[rl].active) =>
              /\ r.err = "Ok"
              /\ r.tx.confirmations = txs[t].confirmations + 1
              /\ r.tx.state = "Relayed"

\* C6 as amended: a successful relay_transaction finds the transaction
\* Locked, adds one confirmation and leaves it Relayed exactly when the new
\* count has reached min_confirmations (Locked otherwise); on a Relayed
\* transaction relay_transaction by an active relayer fails with
\* InvalidState and changes neither the count nor the state.
C6_RelayResult ==
    \A t \in DOMAIN txs, rl \in DOMAIN relayers :
       LET r == relay_transaction(bridge, txs[t], relayers[rl])
       IN  /\ r.err = "Ok" =>
                 /\ txs[t].state = "Locked"
                 /\ r.tx.confirmations = txs[t].confirmations + 1
                 /\ r.tx.state = IF r.tx.confirmations >= bridge.min_confirmations
                                  THEN "Relayed" ELSE "Locked"
           /\ (txs[t].state = "Relayed" /\ relayers[rl].active) =>
                 /\ r.err = "InvalidState"
                 /\ r.tx = txs[t]

C6_RelayStep ==
    /\ (last'.op = "relay_transaction" /\ last'.err # "Ok") => txs' = txs
    /\ \A t \in DOMAIN txs :
          (txs[t].state = "Relayed" /\ last'.op = "relay_transaction") => txs'[t] = txs[t]

C6_RelayedOnceClosed == []C6_RelayResult /\ [][C6_RelayStep]_vars

C6_Witness ==
    /\ last.op = "relay_transaction"
    /\ last.err = "InvalidState"
    /\ \A t \in DOMAIN txs :
          txs[t].state = "Relayed" /\ txs[t].confirmations = bridge.min_confirmations
    /\ \A rl \in DOMAIN relayers : relayers[rl].active

\* C7: a confirmation count never decreases, and it increases only by one,
\* in a successful relay_transaction handed a relayer that is active and not
\* slashed; relay_transaction with an inactive or slashed relayer fails with
\* NotActiveRelayer and leaves the transaction unchanged.
C7_RelayRefused ==
    \A t \in DOMAIN txs, rl \in DOMAIN relayers :
       LET r == relay_transaction(bridge, txs[t], relayers[rl])
       IN  (~relayers[rl].active \/ relayers[rl].slashed) =>
              (r.err = "NotActiveRelayer" /\ r.tx = txs[t])

C7_ConfirmationStep ==
    \A t \in DOMAIN txs :
       /\ t \in DOMAIN txs'
       /\ txs'[t].confirmations >= txs[t].confirmations
       /\ txs'[t].confirmations > txs[t].confirmations =>
             /\ last'.op = "relay_transaction" /\ last'.err = "Ok"
             /\ txs'[t].confirmations = txs[t].confirmations + 1
             /\ \E rl \in DOMAIN relayers :
                   /\ relayers[rl].active /\ ~relayers[rl].slashed
                   /\ relay_transaction(bridge, txs[t], relayers[rl]).tx = txs'[t]

C7_ConfirmationsOnlyByActiveRelayer ==
    []C7_RelayRefused /\ [][C7_ConfirmationStep]_vars

C7_Witness ==
    /\ last.op = "relay_transaction"
    /\ last.err = "NotActiveRelayer"
    /\ \A rl \in DOMAIN relayers : relayers[rl].slashed
    /\ \A t \in DOMAIN txs : txs[t].state = "Locked" /\ txs[t].confirmations = 1

\* C8: while the bridge is paused, lock_assets, relay_transaction and
\* unlock_assets fail and leave the bridge, the transactions and the
\* nullifier accounts unchanged.
C8_PausedBlocksMutation ==
    [][(bridge.paused /\ last'.op \in {"lock_assets", "relay_transaction", "unlock_assets"})
          => (last'.err # "Ok" /\ UNCHANGED <<bridge, txs, nullifiers>>)]_vars

\* C10: a nullifier account is marked used exactly when the unlock_assets
\* that presented it completed its transaction (one used record per
\* Completed transaction, holding that transaction's nullifier, and
\* total_unlocked is the sum of the Completed amounts); unlock_assets either
\* fails and returns the bridge, the transaction and no nullifier account,
\* or succeeds and records the nullifier, completes the transaction and adds
\* its amount to total_unlocked; a step of unlock_assets whose transfer or
\* total_unlocked update fails changes none of them.
C10_UsedIffCompleted ==
    /\ \A i \in DOMAIN nullifiers :
          /\ nullifiers[i].used
          /\ \E t \in Completed : txs[t].nullifier = nullifiers[i].nullifier
    /\ \A t \in Completed :
          \E i \in DOMAIN nullifiers : nullifiers[i].nullifier = txs[t].nullifier
    /\ Len(nullifiers) = Cardinality(Completed)
    /\ bridge.total_unlocked = SumAmounts(Completed)

C10_UnlockResult ==
    \A t \in DOMAIN txs, p \in ZkProofs, n \in Nullifiers, ok \in BOOLEAN :
       LET r == unlock_assets(bridge, txs[t], FreshNullifierAccount, p, n, ok)
       IN  /\ r.err # "Ok" =>
                 (r.bridge = bridge /\ r.tx = txs[t] /\ r.created = <<>>)
           /\ r.err = "Ok" =>
                 /\ r.created = <<[nullifier |-> n, used |-> TRUE]>>
                 /\ r.tx = [txs[t] EXCEPT !.state = "Completed", !.nullifier = n]
                 /\ r.bridge.total_unlocked = bridge.total_unlocked + txs[t].amount

C10_UnlockStep ==
    (last'.op = "unlock_assets"
        /\ last'.err \in {"TransferFailed", "ArithmeticOverflow"})
        => UNCHANGED <<bridge, txs, nullifiers>>

C10_UnlockAtomic ==
    [](C10_UsedIffCompleted /\ C10_UnlockResult) /\ [][C10_UnlockStep]_vars

C10_Witness ==
    /\ last.op = "unlock_assets"
    /\ last.err = "TransferFailed"
    /\ \E t \in DOMAIN txs : txs[t].state = "Locked"
    /\ Completed # {}
    /\ Len(nullifiers) = 1

\* C18: update_fee(new_fee) by the bridge authority fails with FeeTooHigh and
\* leaves the bridge as it was when new_fee exceeds 1000 basis points, and
\* sets the fee to new_fee otherwise; by anyone else it fails and leaves the
\* bridge as it was; the fee of an initialised bridge changes in no other step.
C18_UpdateFeeResult ==
    bridge.initialized =>
       \A k \in Keys, f \in LockFees :
          LET r == update_fee(bridge, k, f)
          IN  IF k # bridge.authority
              THEN r.err # "Ok" /\ r.bridge = bridge
              ELSE IF f > 1000
              THEN r.err = "FeeTooHigh" /\ r.bridge = bridge
              ELSE r.err = "Ok" /\ r.bridge = [bridge EXCEPT !.bridge_fee = f]

C18_UpdateFeeStep ==
    /\ (last'.op = "update_fee" /\ last'.err # "Ok") => UNCHANGED bridgeVars
    /\ (bridge.initialized /\ bridge'.bridge_fee # bridge.bridge_fee) =>
          /\ last'.op = "update_fee" /\ last'.err = "Ok"
          /\ bridge'.bridge_fee <= 1000
          /\ bridge' = [bridge EXCEPT !.bridge_fee = bridge'.bridge_fee]

C18_FeeCapped == []C18_UpdateFeeResult /\ [][C18_UpdateFeeStep]_vars

\* The authority moved the fee away from its initial value, and a fee above
\* the cap was then refused.
C18_Witness ==
    /\ last.op = "update_fee"
    /\ last.err = "FeeTooHigh"
    /\ bridge.bridge_fee \notin LockInitFees

\* C19: a successful lock_assets(amount) creates one BridgeTransaction, in
\* state Locked with 0 confirmations, the zero nullifier and amount - fee for
\* fee = floor(amount * bridge_fee / 10000), and adds amount - fee to
\* total_locked; when that sum leaves u64 the call fails, with
\* ArithmeticOverflow unless an earlier check fails, and changes nothing.
C19_LockAccounting ==
    bridge.initialized =>
       \A amount \in LockAmounts, ok \in BOOLEAN :
          LET r == lock_assets(bridge, amount, ok)
              fee == (amount * bridge.bridge_fee) \div 10000
              net == amount - fee
          IN  /\ r.err = "Ok" =>
                    /\ r.created = <<[amount |-> net, state |-> "Locked",
                                      confirmations |-> 0, nullifier |-> ZERO_NULLIFIER]>>
                    /\ r.bridge = [bridge EXCEPT !.total_locked = bridge.total_locked + net]
              /\ bridge.total_locked + net > U64_MAX =>
                    /\ r.err # "Ok"
                    /\ (~bridge.paused /\ ok) => r.err = "ArithmeticOverflow"
              /\ r.err # "Ok" => (r.bridge = bridge /\ r.created = <<>>)

\* C22: in every reachable state total_unlocked <= total_locked:
\* total_unlocked is the sum of the amounts of the Completed transactions,
\* each paid out once, and total_locked the sum of the net amounts of all
\* transactions lock_assets has created.
C22_UnlockedWithinLocked ==
    /\ bridge.total_unlocked <= bridge.total_locked
    /\ bridge.total_unlocked = SumAmounts(Completed)
    /\ bridge.total_locked = SumAmounts(DOMAIN txs)

\* One of two locked amounts has been paid out.
C22_Witness ==
    /\ Len(txs) = 2
    /\ Cardinality(Completed) = 1
    /\ bridge.total_unlocked > 0
    /\ bridge.total_unlocked < bridge.total_locked

\* C23: Completed is terminal.  On a Completed transaction relay_transaction
\* and unlock_assets fail and return everything as it was, with InvalidState
\* when the relayer is active resp. the bridge is not paused; no step changes
\* a Completed transaction, and total_unlocked grows only by the amount of a
\* transaction that the step takes from Locked to Completed.
C23_CompletedResult ==
    \A t \in Completed :
       /\ \A rl \in DOMAIN relayers :
             LET r == relay_transaction(bridge, txs[t], relayers[rl])
             IN  /\ r.err # "Ok"
                 /\ r.tx = txs[t]
                 /\ relayers[rl].active => r.err = "InvalidState"
       /\ \A p \in ZkProofs, n \in Nullifiers, ok \in BOOLEAN :
             LET r == unlock_assets(bridge, txs[t], FreshNullifierAccount, p, n, ok)
             IN  /\ r.err # "Ok"
                 /\ r.tx = txs[t] /\ r.bridge = bridge /\ r.created = <<>>
                 /\ ~bridge.paused => r.err = "InvalidState"

C23_CompletedStep ==
    /\ \A t \in Completed : txs'[t] = txs[t]
    /\ bridge.initialized =>
          /\ bridge'.total_unlocked >= bridge.total_unlocked
          /\ bridge'.total_unlocked # bridge.total_unlocked =>
                \E t \in DOMAIN txs :
                   /\ txs[t].state = "Locked" /\ txs'[t].state = "Completed"
                   /\ bridge'.total_unlocked = bridge.total_unlocked + txs[t].amount
                   /\ \A u \in DOMAIN txs \ {t} : txs'[u] = txs[u]

C23_CompletedTerminal == []C23_CompletedResult /\ [][C23_CompletedStep]_vars

\* A second unlock_assets of a paid-out transaction was refused on an
\* unpaused bridge that has a relayer.
C23_Witness ==
    /\ last.op = "unlock_assets"
    /\ last.err = "InvalidState"
    /\ txs # <<>>
    /\ \A t \in DOMAIN txs : txs[t].state = "Completed"
    /\ relayers # <<>>
    /\ ~bridge.paused

\* C25: a relayer contributes at most one confirmation to a transaction, so
\* under min_confirmations = k > 1 a transaction is Relayed only when
\* relay_transaction has succeeded for it with k distinct relayers: at least
\* k Relayer accounts exist and its count does not exceed their number.
C25_RelayerQuorum ==
    \A t \in DOMAIN txs :
       /\ txs[t].confirmations <= Len(relayers)
       /\ (txs[t].state = "Relayed" /\ bridge.min_confirmations > 1) =>
             Len(relayers) >= bridge.min_confirmations

\* C26: from initialize onward the bridge fee is at most 1000 basis points,
\* and a successful lock_assets(amount) records a net amount of at least 90%
\* of amount and at most amount.
C26_FeeAtMostTenPercent ==
    bridge.initialized =>
       /\ bridge.bridge_fee <= 1000
       /\ \A amount \in LockAmounts :
             LET r == lock_assets(bridge, amount, TRUE)
             IN  r.err = "Ok" =>
                    /\ r.created[1].amount * 10 >= amount * 9
                    /\ r.created[1].amount <= amount

----------------------------------------------------------------------------
(* Claims about the pool program *)

\* C4: a SwapCommitment executes at most once.  execute_swap on an executed
\* commitment fails and returns the commitment and the pool as they were,
\* with AlreadyExecuted when the owner calls; a successful execute_swap finds
\* the commitment unexecuted, marks it executed and moves the reserves of
\* the pool account it is handed by the commitment's input (added to reserve
\* A) and output (subtracted from reserve B); no step clears an executed
\* flag, a step changes the reserves of at most one pool, and only a
\* successful execute_swap or add_liquidity changes reserves.
C4_ExecuteResult ==
    \A s \in DOMAIN swaps, p \in DOMAIN pools, k \in Keys, a \in SwapAmounts,
       m \in MinAmountsOut, pr \in BulletproofProofs, ok \in TransferOutcomes :
       LET r == execute_swap(config, swaps[s], pools[p], k, now, a, m, pr, ok[1], ok[2])
       IN  /\ swaps[s].executed =>
                 /\ r.err # "Ok"
                 /\ r.swap = swaps[s] /\ r.pool = pools[p]
                 /\ (k = swaps[s].user /\ ~config.paused) => r.err = "AlreadyExecuted"
           /\ r.err = "Ok" =>
                 /\ ~swaps[s].executed
                 /\ r.swap.executed
                 /\ r.pool = [pools[p] EXCEPT
                        !.reserve_a_commitment =
                            add_commitments(pools[p].reserve_a_commitment,
                                            swaps[s].input_commitment),
                        !.reserve_b_commitment =
                            subtract_commitments(pools[p].reserve_b_commitment,
                                                 swaps[s].output_commitment)]

ReservesOf(pool) == <<pool.reserve_a_commitment, pool.reserve_b_commitment>>

C4_ExecuteStep ==
    /\ \A s \in DOMAIN swaps : swaps[s].executed => swaps'[s].executed
    /\ \A p \in DOMAIN pools :
          ReservesOf(pools'[p]) # ReservesOf(pools[p]) =>
             /\ last'.op \in {"execute_swap", "add_liquidity"} /\ last'.err = "Ok"
             /\ \A q \in DOMAIN pools \ {p} : ReservesOf(pools'[q]) = ReservesOf(pools[q])
    /\ (last'.op = "execute_swap" /\ last'.err = "Ok") =>
          \E s \in DOMAIN swaps : ~swaps[s].executed /\ swaps'[s].executed
    /\ (last'.op = "execute_swap" /\ last'.err # "Ok") => UNCHANGED <<pools, swaps>>

C4_ExecutedAtMostOnce == []C4_ExecuteResult /\ [][C4_ExecuteStep]_vars

C4_Witness ==
    /\ last.op = "execute_swap"
    /\ last.err = "AlreadyExecuted"
    /\ \A s \in DOMAIN swaps :
          /\ swaps[s].executed
          /\ now >= swaps[s].timestamp + REVEAL_DELAY
          /\ now <= swaps[s].timestamp + REVEAL_WINDOW

\* C5: for a commitment created at t, execute_swap at clock value now fails
\* and returns the commitment and the pool as they were when now < t + 60 or
\* now > t + 600, with RevealTooEarly resp. SwapExpired when the owner calls
\* on an unexecuted commitment; for t + 60 <= now <= t + 600 it fails with
\* neither error, and it succeeds when the owner calls on an unexecuted
\* commitment with a proof that verifies, a slippage bound that is met and
\* transfers that go through.
C5_WindowResult ==
    \A s \in DOMAIN swaps, p \in DOMAIN pools, k \in Keys, a \in SwapAmounts,
       m \in MinAmountsOut, pr \in BulletproofProofs, ok \in TransferOutcomes :
       LET r == execute_swap(config, swaps[s], pools[p], k, now, a, m, pr, ok[1], ok[2])
           t == swaps[s].timestamp
           reaches == k = swaps[s].user /\ ~swaps[s].executed /\ ~config.paused
           out == calculate_output_amount(a - swap_fee_of(a, config.swap_fee),
                                          pools[p].reserve_a_commitment[1],
                                          pools[p].reserve_b_commitment[1])
       IN  /\ now < t + 60 =>
                 /\ r.err # "Ok"
                 /\ r.swap = swaps[s] /\ r.pool = pools[p]
                 /\ reaches => r.err = "RevealTooEarly"
           /\ now > t + 600 =>
                 /\ r.err # "Ok"
                 /\ r.swap = swaps[s] /\ r.pool = pools[p]
                 /\ reaches => r.err = "SwapExpired"
           /\ (now >= t + 60 /\ now <= t + 600) =>
                 /\ r.err \notin {"RevealTooEarly", "SwapExpired"}
                 /\ (/\ reaches
                     /\ verify_range_proof(swaps[s].input_commitment, pr)
                     /\ ~out.panic
                     /\ out.amount >= m
                     /\ ok[1] /\ ok[2]) => r.err = "Ok"

C5_WindowStep ==
    (last'.op = "execute_swap" /\ last'.err \in {"RevealTooEarly", "SwapExpired"})
        => UNCHANGED <<pools, swaps>>

C5_CommitRevealWindow == []C5_WindowResult /\ [][C5_WindowStep]_vars

C5_Witness ==
    /\ last.op = "execute_swap"
    /\ last.err = "Ok"
    /\ \A s \in DOMAIN swaps :
          swaps[s].executed /\ now = swaps[s].timestamp + REVEAL_WINDOW

\* C17: execute_swap fails whenever the amount it computes is below
\* min_amount_out, with SlippageExceeded when the owner calls in the window on
\* an unexecuted commitment; a call that ends with SlippageExceeded leaves the
\* commitment unexecuted and unrevealed and the reserves as they were; a
\* successful call pays at least min_amount_out.
C17_SlippageResult ==
    \A s \in DOMAIN swaps, p \in DOMAIN pools, k \in Keys, a \in SwapAmounts,
       m \in MinAmountsOut, pr \in BulletproofProofs, ok \in TransferOutcomes :
       LET r == execute_swap(config, swaps[s], pools[p], k, now, a, m, pr, ok[1], ok[2])
           t == swaps[s].timestamp
           reaches == /\ k = swaps[s].user /\ ~swaps[s].executed /\ ~config.paused
                      /\ now >= t + REVEAL_DELAY /\ now <= t + REVEAL_WINDOW
           out == calculate_output_amount(a - swap_fee_of(a, config.swap_fee),
                                          pools[p].reserve_a_commitment[1],
                                          pools[p].reserve_b_commitment[1])
       IN  /\ (~out.panic /\ out.amount < m) =>
                 /\ r.err # "Ok"
                 /\ reaches => r.err = "SlippageExceeded"
           /\ r.err = "SlippageExceeded" =>
                 /\ out.amount < m
                 /\ r.swap = swaps[s] /\ r.pool = pools[p]
                 /\ ~r.swap.executed /\ ~r.swap.revealed
           /\ r.err = "Ok" => (r.amount_out = out.amount /\ r.amount_out >= m)

C17_SlippageStep ==
    (last'.op = "execute_swap" /\ last'.err = "SlippageExceeded")
        => UNCHANGED <<config, pools, positions, swaps>>

C17_SlippageBound == []C17_SlippageResult /\ [][C17_SlippageStep]_vars

\* A call was refused for slippage by one unit: every pool prices the swap
\* at a nonzero amount, one below a min_amount_out on offer.
C17_Witness ==
    /\ last.op = "execute_swap"
    /\ last.err = "SlippageExceeded"
    /\ \A s \in DOMAIN swaps : ~swaps[s].executed /\ ~swaps[s].revealed
    /\ \A p \in DOMAIN pools, a \in SwapAmounts :
          LET out == calculate_output_amount(a - swap_fee_of(a, config.swap_fee),
                                             pools[p].reserve_a_commitment[1],
                                             pools[p].reserve_b_commitment[1])
          IN  out.amount > 0 /\ out.amount + 1 \in MinAmountsOut

\* C21: execute_swap succeeds only for the signer who created the
\* SwapCommitment: a call by any other signer fails with NotSwapOwner and
\* returns the commitment and the pool as they were, whatever the clock, the
\* proof and the amounts; the user recorded by commit_swap never changes.
C21_OwnerResult ==
    \A s \in DOMAIN swaps, p \in DOMAIN pools, k \in Keys, a \in SwapAmounts,
       m \in MinAmountsOut, pr \in BulletproofProofs, ok \in TransferOutcomes :
       LET r == execute_swap(config, swaps[s], pools[p], k, now, a, m, pr, ok[1], ok[2])
       IN  /\ k # swaps[s].user =>
                 /\ r.err = "NotSwapOwner"
                 /\ r.swap = swaps[s] /\ r.pool = pools[p]
           /\ r.err = "Ok" => k = swaps[s].user

C21_OwnerStep ==
    /\ \A s \in DOMAIN swaps : swaps'[s].user = swaps[s].user
    /\ (last'.op = "commit_swap" /\ last'.err = "Ok") =>
          /\ Len(swaps') = Len(swaps) + 1
          /\ swaps'[Len(swaps')].user \in Traders
    /\ (last'.op = "execute_swap" /\ last'.err = "NotSwapOwner")
          => UNCHANGED <<config, pools, positions, swaps>>

C21_OnlyOwnerExecutes == []C21_OwnerResult /\ [][C21_OwnerStep]_vars

\* Another signer was refused a commitment that its owner could have
\* executed at that moment.
C21_Witness ==
    /\ last.op = "execute_swap"
    /\ last.err = "NotSwapOwner"
    /\ swaps # <<>>
    /\ \A s \in DOMAIN swaps :
          /\ ~swaps[s].executed
          /\ now >= swaps[s].timestamp + REVEAL_DELAY
          /\ now <= swaps[s].timestamp + REVEAL_WINDOW
          /\ \E p \in DOMAIN pools, a \in SwapAmounts, m \in MinAmountsOut,
                pr \in BulletproofProofs :
                execute_swap(config, swaps[s], pools[p], swaps[s].user, now, a, m, pr,
                             TRUE, TRUE).err = "Ok"

\* C27: the clock never goes back, and a SwapCommitment that is unexecuted
\* when the clock has passed its timestamp + 600 stays as it is: execute_swap
\* on it fails and returns it unchanged, and no step changes it; in every
\* reachable state the revealed flag of a commitment equals its executed flag.
C27_ExpiredResult ==
    \A s \in DOMAIN swaps :
       /\ swaps[s].revealed = swaps[s].executed
       /\ (~swaps[s].executed /\ now > swaps[s].timestamp + 600) =>
             \A p \in DOMAIN pools, k \in Keys, a \in SwapAmounts, m \in MinAmountsOut,
                pr \in BulletproofProofs, ok \in TransferOutcomes :
                LET r == execute_swap(config, swaps[s], pools[p], k, now, a, m, pr,
                                      ok[1], ok[2])
                IN  /\ r.err # "Ok"
                    /\ r.swap = swaps[s]
                    /\ r.pool = pools[p]

C27_ExpiredStep ==
    /\ now' >= now
    /\ \A s \in DOMAIN swaps :
          (~swaps[s].executed /\ now > swaps[s].timestamp + 600) => swaps'[s] = swaps[s]

C27_ExpiredStaysUnexecuted == []C27_ExpiredResult /\ [][C27_ExpiredStep]_vars

\* The owner's execute_swap was refused on a commitment the clock has left
\* behind, which is still unexecuted and unrevealed.
C27_Witness ==
    /\ last.op = "execute_swap"
    /\ last.err = "SwapExpired"
    /\ swaps # <<>>
    /\ \A s \in DOMAIN swaps :
          /\ ~swaps[s].executed /\ ~swaps[s].revealed
          /\ now > swaps[s].timestamp + REVEAL_WINDOW

\* C11: the swap output is
\* floor(amountInAfterFee*997*reserveOut / (reserveIn*1000 + amountInAfterFee*997))
\* wherever that quotient is defined; amountIn = 100 against reserves
\* (1000, 1000) yields 90.
C11_ConstantProductOutput ==
    last.op = "calculate_output_amount" =>
       LET a == last.args[1]
           rin == last.args[2]
           rout == last.args[3]
       IN  /\ (rin * 1000 + a * 997 # 0) =>
                 /\ last.err = "Ok"
                 /\ last.result = (a * 997 * rout) \div (rin * 1000 + a * 997)
           /\ last.args = <<100, 1000, 1000>> => last.result = 90

\* The position account presented as number i: an existing one or a new one.
PositionAt(i) == IF i \in DOMAIN positions THEN positions[i] ELSE FreshPosition

\* add_liquidity by a provider whose proofs verify and whose transfers go through
Deposit(p, i, amount_a, amount_b) ==
    LET pr == CHOOSE x \in BulletproofProofs : x.genuine
        ca == CHOOSE x \in InputCommitments : TRUE
    IN  add_liquidity(config, pools[p], PositionAt(i), p, CHOOSE k \in Providers : TRUE,
                      amount_a, amount_b, ca, ca, pr, pr, TRUE, TRUE)

\* min(amountA * supply / reserveA, amountB * supply / reserveB), unbounded
ExactShare(pool, amount_a, amount_b) ==
    Min((amount_a * pool.total_supply) \div pool.reserve_a_commitment[1],
        (amount_b * pool.total_supply) \div pool.reserve_b_commitment[1])

\* A pool that has liquidity and whose two reserve values are nonzero.
Funded(pool) ==
    /\ pool.total_supply # 0
    /\ pool.reserve_a_commitment[1] # 0
    /\ pool.reserve_b_commitment[1] # 0

\* C12: a computation that leaves the 64-bit range fails instead of being cut
\* to 64 bits: a later deposit never records a mint other than the exact
\* min(amountA*supply/reserveA, amountB*supply/reserveB), and a withdrawal
\* never reports amounts other than the exact liquidity*reserve/totalSupply.
C12_NoSilentTruncation ==
    /\ \A p \in DOMAIN pools, i \in 1..MaxPositions, a \in MintAmounts, b \in MintAmounts :
          Funded(pools[p]) =>
             LET r == Deposit(p, i, a, b)
                 exact == ExactShare(pools[p], a, b)
             IN  /\ r.err = "Ok" => r.liquidity = exact
                 /\ exact > U64_MAX => r.err = "ArithmeticOverflow"
    /\ \A p \in DOMAIN pools, i \in DOMAIN positions :
          \A l \in {positions[i].liquidity, positions[i].liquidity + 1} :
             LET r == remove_liquidity(pools[p], positions[i], l)
             IN  r.err = "Ok" =>
                    /\ r.amount_a = (l * pools[p].reserve_a_commitment[1])
                                        \div pools[p].total_supply
                    /\ r.amount_b = (l * pools[p].reserve_b_commitment[1])
                                        \div pools[p].total_supply

\* C13: the first provider of a pool mints floor(sqrt(amountA*amountB)) - 1000,
\* and the deposit fails with InsufficientLiquidity, supply and position
\* unchanged, when that quantity is not positive.
C13_FirstMint ==
    \A p \in DOMAIN pools, i \in 1..MaxPositions, a \in MintAmounts, b \in MintAmounts :
       pools[p].total_supply = 0 =>
          LET r == Deposit(p, i, a, b)
              exact == SqrtBetween(a * b, 0, U64_MAX + 1) - MINIMUM_LIQUIDITY
          IN  r.err \in {"Ok", "InsufficientLiquidity"} =>
                 IF exact <= 0
                 THEN /\ r.err = "InsufficientLiquidity"
                      /\ r.pool = pools[p]
                      /\ r.position = PositionAt(i)
                 ELSE /\ r.err = "Ok"
                      /\ r.liquidity = exact
                      /\ r.pool.total_supply = exact

\* C14: a later provider mints min(amountA*supply/reserveA,
\* amountB*supply/reserveB), and the deposit fails when that is 0.
C14_SubsequentMint ==
    \A p \in DOMAIN pools, i \in 1..MaxPositions, a \in MintAmounts, b \in MintAmounts :
       Funded(pools[p]) =>
          LET r == Deposit(p, i, a, b)
              exact == ExactShare(pools[p], a, b)
          IN  r.err \in {"Ok", "InsufficientLiquidity"} =>
                 IF exact = 0
                 THEN r.err = "InsufficientLiquidity" /\ r.pool = pools[p]
                 ELSE /\ r.err = "Ok"
                      /\ r.pool.total_supply = pools[p].total_supply + exact
                      /\ r.position.liquidity = PositionAt(i).liquidity + exact

\* C15: remove_liquidity(l) on a position with balance b fails with
\* InsufficientLiquidity, position and pool unchanged, when l > b; when l = b
\* it succeeds, zeroes the position and takes exactly l off the total supply.
C15_RemoveUpToBalance ==
    \A p \in DOMAIN pools, i \in DOMAIN positions :
       \A l \in {positions[i].liquidity, positions[i].liquidity + 1} :
          LET r == remove_liquidity(pools[p], positions[i], l)
          IN  IF l > positions[i].liquidity
              THEN /\ r.err = "InsufficientLiquidity"
                   /\ r.position = positions[i]
                   /\ r.pool = pools[p]
              ELSE /\ r.err = "Ok"
                   /\ r.position.liquidity = 0
                   /\ r.pool.total_supply = pools[p].total_supply - l

\* C20: combining commitments is associative and invertible:
\* add(add(a, b), c) = add(a, add(b, c)), subtract(add(a, b), b) = a, and
\* subtract(a, a) is the zero commitment, the value both reserves of a pool
\* hold when create_pool has made it.
C20_CommitmentGroup ==
    last.op = "combine" =>
       LET fresh == create_pool([NoConfig EXCEPT !.initialized = TRUE]).created[1]
       IN  /\ last.left = last.right
           /\ last.back = last.args[1]
           /\ last.self = fresh.reserve_a_commitment
           /\ last.self = fresh.reserve_b_commitment
           /\ \A i \in 1..CommitmentLen : last.self[i] = 0

\* Three nonzero commitments were combined and a byte of a + b, of b + c and
\* of (a + b) + c wrapped around.
C20_Witness ==
    /\ last.op = "combine"
    /\ \A i \in 1..CommitmentLen : last.args[1][i] # 0
    /\ last.args[1][1] + last.args[2][1] > U8_MAX
    /\ last.args[2][1] + last.args[3][1] > U8_MAX
    /\ last.left[1] # last.args[1][1] + last.args[2][1] + last.args[3][1]

\* C24: remove_liquidity signed by someone other than the position's user,
\* or handed a pool other than the position's pool, lowers neither the
\* position's balance nor that pool's total supply.
C24_RemoveOnlyByHolder ==
    [][\A p \in DOMAIN pools, i \in DOMAIN positions, k \in Keys :
          \A l \in {positions[i].liquidity, positions[i].liquidity + 1} :
             (/\ RemoveLiquidity(p, i, k, l)
              /\ (k # positions[i].user \/ p # positions[i].pool))
                 => /\ positions'[i].liquidity >= positions[i].liquidity
                    /\ pools'[p].total_supply >= pools[p].total_supply]_vars

\* The positions that reference pool p.
PositionsOf(p) == {i \in DOMAIN positions : positions[i].pool = p}

RECURSIVE SumLiquidity(_)
SumLiquidity(S) ==
    IF S = {} THEN 0
    ELSE LET i == CHOOSE x \in S : TRUE IN positions[i].liquidity + SumLiquidity(S \ {i})

\* C9: each pool's total_supply is at least the sum of the liquidity of the
\* positions that reference the pool.
C9_SupplyCoversPositions ==
    \A p \in DOMAIN pools : pools[p].total_supply >= SumLiquidity(PositionsOf(p))

====
